---- MODULE Spec2Model ----
(***************************************************************************)
(* Model of REPORT_GEN.py: AutomatedReportGenerator (load_data,            *)
(* analyze_data, generate_charts, generate_pdf_report) and the CLI driver  *)
(* main().  A dataset is abstracted to its shape (row count, number of     *)
(* numeric columns, number of object-dtype columns); a file path and a     *)
(* file type are sequences of one-character strings so that                *)
(* split('.')[-1].lower() is computed, not assumed.  The outcomes of the   *)
(* external libraries (pandas readers, matplotlib drawing calls,           *)
(* FPDF.image, FPDF.output) are nondeterministic inputs of the actions.    *)
(***************************************************************************)
EXTENDS Integers, Sequences, FiniteSets, TLC

VARIABLES
    data,              \* self.data: None or a dataset shape
    analysis_results,  \* self.analysis_results: the dict, a function on its keys
    files,             \* chart image files present under temp_charts/
    chart_files,       \* local chart_files of generate_pdf_report
    rendered,          \* chart files generate_charts has saved in this run
    pdf,               \* local pdf of generate_pdf_report
    pc,                \* position inside generate_pdf_report
    exc,               \* exception propagating out of generate_pdf_report
    written,           \* pdf.output has persisted the document of the run in progress
    notEmbedded,       \* planned charts whose image did not get embedded
    mainPc,            \* position inside main(), "api" when used as a library
    mainPath,          \* local file_path of main()
    mainCalls,         \* generator methods main() has invoked
    printed,           \* messages main() has printed
    op,                \* last generator method that ran
    arg,               \* arguments of the last load_data call
    ret,               \* return value of the last load_data / analyze_data
    err                \* error reported by the last load_data / analyze_data

vars == <<data, analysis_results, files, chart_files, rendered, pdf, pc, exc, written,
          notEmbedded, mainPc, mainPath, mainCalls, printed, op, arg, ret, err>>

\* Bounds on the dataset shapes the readers can deliver.
MaxNumeric == 2
MaxCategorical == 1

\* Python's None
None == [none |-> TRUE]

----------------------------------------------------------------------------
(* Strings *)

AUTO == <<"a", "u", "t", "o">>
CSV == <<"c", "s", "v">>
XLSX == <<"x", "l", "s", "x">>
XLS == <<"x", "l", "s">>
JSON == <<"j", "s", "o", "n">>

\* str.lower() on one character (the alphabet of the modelled paths)
LowerChar(c) ==
    CASE c = "C" -> "c" [] c = "S" -> "s" [] c = "V" -> "v"
      [] c = "X" -> "x" [] c = "L" -> "l" [] c = "J" -> "j"
      [] c = "O" -> "o" [] c = "N" -> "n" [] c = "T" -> "t"
      [] OTHER -> c

\* str.lower()
Lower(s) == [i \in 1..Len(s) |-> LowerChar(s[i])]

\* s.split('.')[-1]: what follows the last '.', all of s when it has none
LastField(s) ==
    LET dots == {i \in 1..Len(s) : s[i] = "."}
        last == IF dots = {} THEN 0
                ELSE CHOOSE i \in dots : \A j \in dots : j <= i
    IN  SubSeq(s, last + 1, Len(s))

\* File paths handed to load_data.
Paths ==
    { <<"a", ".", "c", "s", "v">>,
      <<"a", ".", "C", "S", "V">>,
      <<"a", ".", "X", "l", "s", "x">>,
      <<"a", ".", "x", "l", "s">>,
      <<"a", ".", "J", "s", "o", "n">>,
      <<"a", ".", "t", "x", "t">>,
      <<"a", ".", "c", "s", "v", ".", "t", "x", "t">>,
      <<"a", ".", "t", "x", "t", ".", "j", "s", "o", "n">>,
      <<"a", ".">>,
      <<"c", "s", "v">>,
      <<"a">> }

\* file_type arguments handed to load_data.
FileTypes == {AUTO, CSV, XLSX, XLS, JSON, <<"C", "S", "V">>, <<"t", "x", "t">>}

\* "sample_sales_data.csv", written by create_sample_data
SamplePath == <<"s", ".", "c", "s", "v">>

----------------------------------------------------------------------------
(* Datasets *)

\* row counts of the delivered datasets: none, some
RowCounts == {0, 5}

Datasets ==
    [rows : RowCounts, numeric : 0..MaxNumeric, categorical : 0..MaxCategorical]

\* what the reader called by load_data does: deliver a dataset or raise
ParseFailure == [raises |-> "ParseFailure"]
ReadOutcomes == Datasets \cup {ParseFailure}

\* the empty dict
EmptyDict == [k \in {} |-> 0]

\* d[k] = v
Put(d, k, v) == [x \in DOMAIN d \cup {k} |-> IF x = k THEN v ELSE d[x]]

----------------------------------------------------------------------------
(* load_data *)

\* lines 28-29: the declared type, or the lower-cased last '.'-field of the path
ResolveFileType(file_path, file_type) ==
    IF file_type = AUTO THEN Lower(LastField(file_path)) ELSE file_type

\* a reader branch that also takes 'txt'
SupportedWithTxt(file_type) ==
    file_type \in {CSV, XLSX, XLS, JSON, <<"t", "x", "t">>}

\* lines 31-40: the types that have a reader; any other raises ValueError
Supported(file_type) ==
    \/ file_type \in {CSV}
    \/ file_type \in {XLSX, XLS}
    \/ file_type = JSON

\* lines 27-47: result of the try block; self.data is assigned only when the
\* reader returned
LoadResult(old, file_path, file_type, content) ==
    LET ft == ResolveFileType(file_path, file_type)
    IN  IF ~Supported(ft)
        THEN [data |-> old, ret |-> FALSE, err |-> "UnsupportedFormat"]
        ELSE IF content = ParseFailure
        THEN [data |-> old, ret |-> FALSE, err |-> "ParseFailure"]
        ELSE [data |-> content, ret |-> TRUE, err |-> "none"]

load_data(file_path, file_type, content) ==
    LET r == LoadResult(data, file_path, file_type, content)
    IN  /\ data' = r.data
        /\ ret' = r.ret
        /\ err' = r.err
        /\ op' = "load_data"
        /\ arg' = [file_path |-> file_path, file_type |-> file_type]
        /\ UNCHANGED <<analysis_results, files, chart_files, rendered, pdf, pc, exc,
                       written, notEmbedded>>

----------------------------------------------------------------------------
(* analyze_data *)

NoArg == [file_path |-> <<>>, file_type |-> <<>>]

\* lines 56-61
BasicStats(d) ==
    [total_rows |-> d.rows, total_columns |-> d.numeric + d.categorical]

\* lines 63-67: describe() and corr() of the numeric columns, both recorded by
\* the number of columns they cover
NumericAnalysis(r, d) ==
    IF d.numeric > 0
    THEN Put(Put(r, "numeric_summary", d.numeric), "correlations", d.numeric)
    ELSE r

\* lines 69-77
CategoricalAnalysis(r, d) ==
    IF d.categorical > 0
    THEN Put(r, "categorical_summary", d.categorical)
    ELSE r

\* lines 55-79: the keys are written into the dict the generator already holds
Analyze(r, d) ==
    CategoricalAnalysis(
        NumericAnalysis(Put(r, "basic_stats", BasicStats(d)), d), d)

\* an empty dataset refused like a missing one
analyze_data_rejecting_empty ==
    /\ IF data = None \/ data.rows = 0
       THEN /\ ret' = FALSE
            /\ err' = "NoDataLoaded"
            /\ UNCHANGED analysis_results
       ELSE /\ analysis_results' = Analyze(analysis_results, data)
            /\ ret' = TRUE
            /\ err' = "none"
    /\ op' = "analyze_data"
    /\ arg' = NoArg
    /\ UNCHANGED <<data, files, chart_files, rendered, pdf, pc, exc, written, notEmbedded>>

\* lines 49-79
analyze_data ==
    /\ IF data = None
       THEN /\ ret' = FALSE
            /\ err' = "NoDataLoaded"
            /\ UNCHANGED analysis_results
       ELSE /\ analysis_results' = Analyze(analysis_results, data)
            /\ ret' = TRUE
            /\ err' = "none"
    /\ op' = "analyze_data"
    /\ arg' = NoArg
    /\ UNCHANGED <<data, files, chart_files, rendered, pdf, pc, exc, written, notEmbedded>>

----------------------------------------------------------------------------
(* generate_charts *)

Range(s) == {s[i] : i \in 1..Len(s)}

\* the correlation chart drawn as soon as one numeric column exists
HasCorrelationChartAnyNumeric(d) == d.numeric > 0

\* line 131
HasCorrelationChart(d) == d.numeric > 1

\* line 145
HasCategoricalChart(d) == d.categorical > 0

\* lines 86-167: the chart files appended to chart_files, in order
ChartPlan(d) ==
    <<"overview_dashboard">>
      \o (IF HasCorrelationChart(d) THEN <<"correlation_matrix">> ELSE <<>>)
      \o (IF HasCategoricalChart(d) THEN <<"categorical_analysis">> ELSE <<>>)

\* lines 81-167.  failAt = 0: every drawing call returns; failAt = k: a call
\* made for the k-th chart raises before its savefig.  No statement of the
\* method catches, so the exception leaves generate_charts and then
\* generate_pdf_report (line 173), with the earlier charts already on disk.
generate_charts(failAt) ==
    IF data = None
    THEN /\ chart_files' = <<>>
         /\ rendered' = {}
         /\ pc' = "assemble"
         /\ UNCHANGED <<files, exc>>
    ELSE LET plan == ChartPlan(data)
         IN  /\ failAt \in 0..Len(plan)
             /\ IF failAt = 0
                THEN /\ chart_files' = plan
                     /\ rendered' = Range(plan)
                     /\ files' = files \cup Range(plan)
                     /\ pc' = "assemble"
                     /\ UNCHANGED exc
                ELSE /\ chart_files' = <<>>
                     /\ rendered' = Range(SubSeq(plan, 1, failAt - 1))
                     /\ files' = files \cup Range(SubSeq(plan, 1, failAt - 1))
                     /\ pc' = "raised"
                     /\ exc' = "RenderFailure"

----------------------------------------------------------------------------
(* FPDF document, lengths in mm *)

\* FPDF(): A4 portrait, 1 cm margins
PageHeight == 297
TopMargin == 10
\* set_auto_page_break(auto=True, margin=15)
BottomMargin == 15
PageBreakTrigger == PageHeight - BottomMargin

EmptyPdf == [pages |-> 0, y |-> 0, blocks |-> <<>>]

add_page(p) == [p EXCEPT !.pages = @ + 1, !.y = TopMargin]

ln(p, h) == [p EXCEPT !.y = @ + h]

\* cell(0, h, txt, 0, 1, 'L'): breaks the page first when the cell would
\* cross the trigger, then moves the cursor down by h
cell(p, h, kind, txt) ==
    LET q == IF p.y + h > PageBreakTrigger THEN add_page(p) ELSE p
    IN  [q EXCEPT !.y = @ + h,
                  !.blocks = Append(@, [page |-> q.pages, kind |-> kind, text |-> txt])]

\* image(path, x, y, w) with an explicit y: no page break, cursor not moved
image(p, path) ==
    [p EXCEPT !.blocks = Append(@, [page |-> p.pages, kind |-> "Image", text |-> path])]

\* The calls generate_pdf_report makes on pdf, written down in order.
CallAddPage == [call |-> "add_page", h |-> 0, kind |-> "", text |-> ""]
CallLn(h) == [call |-> "ln", h |-> h, kind |-> "", text |-> ""]
CallCell(h, kind, txt) == [call |-> "cell", h |-> h, kind |-> kind, text |-> txt]
CallImage(path) == [call |-> "image", h |-> 0, kind |-> "Image", text |-> path]

CallCells(h, kind, txts) == [i \in 1..Len(txts) |-> CallCell(h, kind, txts[i])]

\* lines 179-208: title page with the executive summary
TitlePage ==
    <<CallAddPage, CallCell(30, "Heading", "report_title")>>
      \o CallCells(10, "Paragraph", <<"Generated on", "Generated by">>)
      \o <<CallLn(20), CallCell(10, "Heading", "Executive Summary")>>
      \o CallCells(6, "Paragraph",
                   <<"summary 1", "summary 2", "summary 3",
                     "summary 4", "summary 5", "summary 6">>)

\* lines 210-219
DataOverview ==
    <<CallAddPage, CallCell(10, "Heading", "Data Overview")>>
      \o CallCells(8, "KeyValueLine",
                   <<"Total Rows", "Total Columns", "Missing Values">>)

\* line 228
ChartTitle(path) ==
    CASE path = "overview_dashboard" -> "Overview Dashboard"
      [] path = "correlation_matrix" -> "Correlation Matrix"
      [] path = "categorical_analysis" -> "Categorical Analysis"

\* a page break before every chart, the first included
NewPageBeforeEvery(i) == i > 0

\* line 224, enumerate counting from 1 here
NewPageBefore(i) == i > 1

\* lines 223-235, one turn of the loop: present = the chart files
\* os.path.exists finds, failing = those on which pdf.image raises
AddChart(charts, i, present, failing) ==
    IF i <= Len(charts) /\ charts[i] \in present
    THEN (IF NewPageBefore(i) THEN <<CallAddPage>> ELSE <<>>)
           \o <<CallCell(10, "Heading", ChartTitle(charts[i]))>>
           \o (IF charts[i] \in failing
               THEN <<CallCell(10, "Notice", charts[i])>>
               ELSE <<CallImage(charts[i])>>)
    ELSE <<>>

\* lines 221-235: chart_files never holds more than three charts
AddCharts(charts, present, failing) ==
    AddChart(charts, 1, present, failing)
      \o AddChart(charts, 2, present, failing)
      \o AddChart(charts, 3, present, failing)

\* line 247
ShownColumns == 3

\* lines 248-256, one column
SummaryColumn ==
    <<CallLn(5), CallCell(8, "Heading", "Column")>>
      \o CallCells(6, "KeyValueLine", <<"Mean", "Std", "Min", "Max">>)

\* lines 237-256
StatisticalSummary(results) ==
    IF "numeric_summary" \in DOMAIN results
    THEN LET n == results["numeric_summary"]
             shown == IF n < ShownColumns THEN n ELSE ShownColumns
         IN  <<CallAddPage, CallCell(10, "Heading", "Statistical Summary")>>
               \o [i \in 1..(shown * Len(SummaryColumn)) |->
                      SummaryColumn[((i - 1) % Len(SummaryColumn)) + 1]]
    ELSE <<>>

\* one call applied to the document
Apply(p, c) ==
    CASE c.call = "add_page" -> add_page(p)
      [] c.call = "ln" -> ln(p, c.h)
      [] c.call = "cell" -> cell(p, c.h, c.kind, c.text)
      [] c.call = "image" -> image(p, c.text)

\* the calls applied in order, from the i-th on
RECURSIVE Run(_, _, _)
Run(p, calls, i) ==
    IF p.pages >= 0 /\ i > Len(calls) THEN p
    ELSE Run(Apply(p, calls[i]), calls, i + 1)

\* lines 176-256
Assemble(results, charts, present, failing) ==
    Run(EmptyPdf,
        TitlePage \o DataOverview \o AddCharts(charts, present, failing)
          \o StatisticalSummary(results),
        1)

----------------------------------------------------------------------------
(* generate_pdf_report, one action per stage *)

mainVars == <<mainPc, mainPath, mainCalls, printed>>

\* lines 172-173: entry and the call of generate_charts
StartReport ==
    /\ pc = "idle"
    /\ \E failAt \in 0..3 : generate_charts(failAt)
    /\ op' = "generate_pdf_report"
    /\ arg' = NoArg
    /\ pdf' = EmptyPdf
    /\ notEmbedded' = {}
    /\ written' = FALSE
    /\ UNCHANGED <<data, analysis_results, ret, err>>

\* lines 176-256.  cellRaises: a cell call rejects its text (first on the
\* title, line 182); nothing catches it.
AssembleDocument ==
    /\ pc = "assemble"
    /\ \E cellRaises \in BOOLEAN, failing \in SUBSET (Range(chart_files) \cap files) :
          IF cellRaises
          THEN /\ pdf' = add_page(EmptyPdf)
               /\ pc' = "raised"
               /\ exc' = "AssemblyFailure"
               /\ UNCHANGED notEmbedded
          ELSE /\ pdf' = Assemble(analysis_results, chart_files, files, failing)
               /\ notEmbedded' = {c \in Range(chart_files) : c \notin files \/ c \in failing}
               /\ pc' = "output"
               /\ UNCHANGED exc
    /\ UNCHANGED <<data, analysis_results, files, chart_files, rendered, written,
                   op, arg, ret, err, mainVars>>

\* lines 258-260: pdf.output writes the document or raises
OutputPdf ==
    /\ pc = "output"
    /\ \E ok \in BOOLEAN :
          IF ok
          THEN /\ written' = TRUE
               /\ pc' = "cleanup"
               /\ UNCHANGED exc
          ELSE /\ pc' = "raised"
               /\ exc' = "WriteFailure"
               /\ UNCHANGED written
    /\ UNCHANGED <<data, analysis_results, files, chart_files, rendered, pdf, notEmbedded,
                   op, arg, ret, err, mainVars>>

\* lines 262-265
CleanUp ==
    /\ pc = "cleanup"
    /\ files' = files \ Range(chart_files)
    /\ pc' = "returned"
    /\ UNCHANGED <<data, analysis_results, chart_files, rendered, pdf, exc, written,
                   notEmbedded, op, arg, ret, err, mainVars>>

\* line 267, and line 297 when main is the caller
ReturnToCaller ==
    /\ pc = "returned"
    /\ pc' = "idle"
    /\ chart_files' = <<>>
    /\ rendered' = {}
    /\ pdf' = EmptyPdf
    /\ notEmbedded' = {}
    /\ written' = FALSE
    /\ IF mainPc = "wait"
       THEN /\ mainPc' = "done"
            /\ printed' = printed \cup {"Report generated"}
       ELSE UNCHANGED <<mainPc, printed>>
    /\ UNCHANGED <<data, analysis_results, files, exc,
                   op, arg, ret, err, mainPath, mainCalls>>

\* the exception leaves generate_pdf_report; main does not catch it
RaiseToCaller ==
    /\ pc = "raised"
    /\ pc' = "idle"
    /\ exc' = "none"
    /\ chart_files' = <<>>
    /\ rendered' = {}
    /\ pdf' = EmptyPdf
    /\ notEmbedded' = {}
    /\ mainPc' = IF mainPc = "wait" THEN "crashed" ELSE mainPc
    /\ UNCHANGED <<data, analysis_results, files, written,
                   op, arg, ret, err, mainPath, mainCalls, printed>>

\* another process removes a rendered chart before line 223 looks for it
LoseChartFile ==
    /\ pc = "assemble"
    /\ \E f \in Range(chart_files) \cap files : files' = files \ {f}
    /\ UNCHANGED <<data, analysis_results, chart_files, rendered, pdf, pc, exc, written,
                   notEmbedded, op, arg, ret, err, mainVars>>

----------------------------------------------------------------------------
(* the generator used as a library: any order of calls *)

\* the file the pipeline is fed
ReportPath == <<"a", ".", "c", "s", "v">>

\* load_data called between the other methods, format left to 'auto'
ApiLoadData ==
    /\ mainPc = "api"
    /\ pc = "idle"
    /\ \E content \in ReadOutcomes : load_data(ReportPath, AUTO, content)
    /\ UNCHANGED mainVars

\* load_data over every modelled path and declared type
ApiLoadAnyFile ==
    /\ mainPc = "api"
    /\ pc = "idle"
    /\ \E file_path \in Paths, file_type \in FileTypes, content \in ReadOutcomes :
          load_data(file_path, file_type, content)
    /\ UNCHANGED mainVars

ApiAnalyzeData ==
    /\ mainPc = "api"
    /\ pc = "idle"
    /\ analyze_data
    /\ UNCHANGED mainVars

ApiGeneratePdfReport ==
    /\ mainPc = "api"
    /\ StartReport
    /\ UNCHANGED mainVars

----------------------------------------------------------------------------
(* main *)

\* lines 275-280
MainInput ==
    /\ mainPc = "input"
    /\ \E typed \in Paths \cup {<<>>}, exists \in BOOLEAN :
          IF typed = <<>> \/ ~exists
          THEN /\ mainPath' = SamplePath
               /\ printed' = printed \cup {"Creating sample data"}
          ELSE /\ mainPath' = typed
               /\ UNCHANGED printed
    /\ mainPc' = "load"
    /\ UNCHANGED <<data, analysis_results, files, chart_files, rendered, pdf, pc, exc,
                   written, notEmbedded, mainCalls, op, arg, ret, err>>

\* main going on to the analysis whatever load_data returned
AfterLoadUnchecked(ok) == "analyze"

\* line 286: the branch main takes on load_data's return value
AfterLoad(ok) == IF ok THEN "analyze" ELSE "failed"

\* line 286
MainLoad ==
    /\ mainPc = "load"
    /\ \E content \in ReadOutcomes : load_data(mainPath, AUTO, content)
    /\ mainPc' = AfterLoad(ret')
    /\ mainCalls' = mainCalls \cup {"load_data"}
    /\ UNCHANGED <<mainPath, printed>>

\* line 287
MainAnalyze ==
    /\ mainPc = "analyze"
    /\ analyze_data
    /\ mainPc' = "report"
    /\ mainCalls' = mainCalls \cup {"analyze_data"}
    /\ UNCHANGED <<mainPath, printed>>

\* lines 290-295
MainReport ==
    /\ mainPc = "report"
    /\ StartReport
    /\ mainPc' = "wait"
    /\ mainCalls' = mainCalls \cup {"generate_pdf_report", "generate_charts"}
    /\ UNCHANGED <<mainPath, printed>>

\* line 299
MainFailed ==
    /\ mainPc = "failed"
    /\ printed' = printed \cup {"Failed to load data"}
    /\ mainPc' = "done"
    /\ UNCHANGED <<data, analysis_results, files, chart_files, rendered, pdf, pc, exc,
                   written, notEmbedded, mainPath, mainCalls, op, arg, ret, err>>

----------------------------------------------------------------------------
(* Specifications *)

\* lines 14-18 for the generator; main at its first statement, or no main
Init ==
    /\ data = None
    /\ analysis_results = EmptyDict
    /\ files = {}
    /\ chart_files = <<>>
    /\ rendered = {}
    /\ pdf = EmptyPdf
    /\ pc = "idle"
    /\ exc = "none"
    /\ written = FALSE
    /\ notEmbedded = {}
    /\ mainPc \in {"api", "input"}
    /\ mainPath = <<>>
    /\ mainCalls = {}
    /\ printed = {}
    /\ op = "__init__"
    /\ arg = NoArg
    /\ ret = FALSE
    /\ err = "none"

Next ==
    \/ ApiLoadData
    \/ ApiAnalyzeData
    \/ ApiGeneratePdfReport
    \/ AssembleDocument
    \/ OutputPdf
    \/ CleanUp
    \/ ReturnToCaller
    \/ RaiseToCaller
    \/ MainInput
    \/ MainLoad
    \/ MainAnalyze
    \/ MainReport
    \/ MainFailed

\* the program alone: only its own statements touch temp_charts/
Spec == Init /\ [][Next]_vars

NextEnv == Next \/ LoseChartFile

\* load_data called any number of times on one generator
NextLoad == ApiLoadAnyFile

SpecLoad == Init /\ [][NextLoad]_vars

\* the program next to other processes that may delete files in temp_charts/
SpecEnv == Init /\ [][NextEnv]_vars

----------------------------------------------------------------------------
(* Properties *)

Max0(n) == IF n > 0 THEN n ELSE 0

HasNumericSummary == "numeric_summary" \in DOMAIN analysis_results

\* C1: when generate_pdf_report has completed, the document has
\* 2 + max(0, len(chart_files) - 1) pages, plus one when numeric_summary is a
\* key of analysis_results.
PageCountFormula ==
    pc = "returned" =>
        pdf.pages = 2 + Max0(Len(chart_files) - 1)
                      + (IF HasNumericSummary THEN 1 ELSE 0)

\* a completed run with three charts, one of them replaced by the notice,
\* and a statistics page
PageCountWitness ==
    /\ pc = "returned"
    /\ Len(chart_files) = 3
    /\ notEmbedded # {}
    /\ HasNumericSummary
    /\ pdf.pages = 5

\* the chart list the claim prescribes for a dataset with n numeric and c
\* categorical columns
ExpectedCharts(n, c) ==
    SelectSeq(<<"overview_dashboard", "correlation_matrix", "categorical_analysis">>,
              LAMBDA id : \/ id = "overview_dashboard"
                          \/ id = "correlation_matrix" /\ n >= 2
                          \/ id = "categorical_analysis" /\ c >= 1)

\* C2: for a loaded dataset the list generate_charts returns is fixed by the
\* numbers of numeric and categorical columns: overview_dashboard first,
\* correlation_matrix iff at least two numeric columns, categorical_analysis
\* iff at least one categorical column, only overview_dashboard when both
\* numbers are zero.
ChartListByColumnCounts ==
    (pc \in {"assemble", "output", "cleanup", "returned"} /\ data # None) =>
        /\ chart_files = ExpectedCharts(data.numeric, data.categorical)
        /\ chart_files[1] = "overview_dashboard"
        /\ (data.numeric = 0 /\ data.categorical = 0
              => chart_files = <<"overview_dashboard">>)

\* generate_charts has returned all three charts for a dataset without rows
ChartListWitness ==
    /\ pc = "assemble"
    /\ data # None
    /\ data.rows = 0
    /\ chart_files = <<"overview_dashboard", "correlation_matrix", "categorical_analysis">>

PipelineCalls == {"analyze_data", "generate_charts", "generate_pdf_report"}

\* C6: in a run of main, once load_data has failed none of analyze_data,
\* generate_charts, generate_pdf_report is ever invoked and no document is
\* written, the run ends after printing the failure message, and analyze_data
\* is invoked only when a dataset has been loaded.
MainStopsOnLoadFailure ==
    mainPc # "api" =>
        /\ (mainPc = "failed" \/ "Failed to load data" \in printed) =>
              /\ mainCalls \cap PipelineCalls = {}
              /\ ~written
              /\ pdf = EmptyPdf
              /\ pc = "idle"
        /\ (mainPc = "done" /\ data = None) => "Failed to load data" \in printed
        /\ "analyze_data" \in mainCalls => data # None

\* main has ended after a failed load of a file the user named
MainStopsWitness ==
    /\ mainPc = "done"
    /\ mainCalls = {"load_data"}
    /\ ~ret
    /\ mainPath # SamplePath
    /\ "Failed to load data" \in printed

\* the extension of a path: what follows its last '.', lower-cased; a path
\* without '.' is its own extension
Extension(file_path) == Lower(LastField(file_path))

UnsupportedAuto(a) ==
    /\ a.file_type = AUTO
    /\ Extension(a.file_path) \notin {CSV, XLSX, XLS, JSON}

AnalyzeFailsOnlyWithoutData ==
    [][/\ op' = "analyze_data" =>
            /\ (ret' = FALSE) <=> (data = None)
            /\ data = None =>
                  (err' = "NoDataLoaded" /\ analysis_results' = analysis_results)
            /\ data # None =>
                  /\ "basic_stats" \in DOMAIN analysis_results'
                  /\ analysis_results'["basic_stats"].total_rows = data.rows
       /\ (pc = "idle" /\ pc' # "idle" /\ data = None) =>
            (chart_files' = <<>> /\ rendered' = {} /\ files' = files)]_vars

\* a dataset without rows has been analysed
AnalyzeEmptyWitness ==
    /\ op = "analyze_data"
    /\ ret
    /\ data # None
    /\ data.rows = 0
    /\ analysis_results["basic_stats"].total_rows = 0

\* C3: whenever a run of generate_pdf_report in which generate_charts returned
\* has ended, by returning or by a later stage raising, no chart file that
\* generate_charts saved in that run is left.
ChartsRemovedOnEveryPath ==
    (pc \in {"returned", "raised"} /\ exc # "RenderFailure") =>
        rendered \cap files = {}

\* C4: no failure of a drawing call leaves generate_charts or
\* generate_pdf_report.
RenderFailureNeverEscapes == exc # "RenderFailure"

\* block i is the heading of chart c and block i + 1 its notice
NoticeAt(c, i) ==
    /\ pdf.blocks[i].kind = "Heading"
    /\ pdf.blocks[i].text = ChartTitle(c)
    /\ pdf.blocks[i + 1].kind = "Notice"
    /\ pdf.blocks[i + 1].text = c

\* C5: once the document is assembled, every planned chart whose image was
\* not embedded, its file missing included, has its heading followed by the
\* notice.
EveryUnembeddedChartHasNotice ==
    pc \in {"output", "cleanup", "returned"} =>
        \A c \in notEmbedded : \E i \in 1..(Len(pdf.blocks) - 1) : NoticeAt(c, i)

\* C9: right after a successful analyze_data, correlations is a key of
\* analysis_results iff the dataset has at least two numeric columns.
CorrelationsIffTwoNumeric ==
    (op = "analyze_data" /\ ret) =>
        (("correlations" \in DOMAIN analysis_results) <=> (data.numeric >= 2))

\* C10: right after a successful analyze_data, whatever was loaded and
\* analysed before, numeric_summary is absent when the loaded dataset has no
\* numeric column.
NoNumericSummaryWithoutNumericColumns ==
    (op = "analyze_data" /\ ret /\ data.numeric = 0) => ~HasNumericSummary

====
